---- MODULE Spec2Model ----
(***************************************************************************)
(* Dosing-safety engine of the medication tracker backend: the interval    *)
(* dose gate, the meal-window timing validator, the dose-logging endpoints *)
(* and the meal-time configuration they read.                              *)
(*                                                                         *)
(* Instants are minutes since the epoch (the code works in milliseconds;   *)
(* every quantity it compares is a whole number of minutes here).  An      *)
(* optional value (null / undefined) is a sequence of length 0 or 1.       *)
(* A clock string "HH:MM" is the record [h, m] of the two numbers that     *)
(* split(':').map(Number) reads back from it.                              *)
(***************************************************************************)
EXTENDS Integers, Sequences, FiniteSets, TLC

VARIABLES
  now,         \* the true current instant (Date.now()), minutes
  tzOffset,    \* the server's Date.prototype.getTimezoneOffset(), minutes
  meds,        \* Medication collection: id -> document
  activities,  \* Activity collection, in order of creation
  mealTimes,   \* MealTime collection of the patient: mealId -> optional document
  last,        \* the last HTTP response sent
  reqs,        \* logMedicationTaken requests in flight (interleaved handlers)
  probe        \* inputs and result of a pure function evaluated on its own

vars == <<now, tzOffset, meds, activities, mealTimes, last, reqs, probe>>

----------------------------------------------------------------------------
\* Program constants

ISTOffsetMinutes == 330

DayMinutes == 1440

LowStockThreshold == 3

----------------------------------------------------------------------------
\* Bounds of the model

MaxTime == 720

MaxEvents == 2

MaxProbeTime == 1560

----------------------------------------------------------------------------
\* JavaScript arithmetic

\* Math.floor(a / b) for b > 0
FloorDiv(a, b) == a \div b

\* Math.floor in the place of Math.ceil
CeilDivAsFloor(a, b) == a \div b

\* Math.ceil(a / b) for b > 0
CeilDiv(a, b) == -((-a) \div b)

\* a % b of JavaScript: the remainder takes the sign of the dividend
JsRem(a, b) == IF a >= 0 THEN a % b ELSE -((-a) % b)

Max(a, b) == IF a >= b THEN a ELSE b

----------------------------------------------------------------------------
\* timezoneUtils

getCurrentIST == now + tzOffset + ISTOffsetMinutes

convertUTCToIST(utcDate) == utcDate + tzOffset + ISTOffsetMinutes

----------------------------------------------------------------------------
\* barcodeUtils: the interval dose gate

GateResult(c, n, h) == [canTake |-> c, nextDoseTime |-> n, hoursRemaining |-> h]

\* elapsed >= 24/frequency hours, compared without dividing
IntervalReached(elapsedMinutes, frequency) ==
  elapsedMinutes * frequency >= DayMinutes

\* the gate comparing the shifted clock with an unshifted lastTaken
canTakeMedicationNowMixedFrames(lastTaken, frequency) ==
  IF lastTaken = <<>>
  THEN GateResult(TRUE, <<>>, <<>>)
  ELSE LET timeSinceLastDose == getCurrentIST - lastTaken[1]
       IN IF IntervalReached(timeSinceLastDose, frequency)
          THEN GateResult(TRUE, <<>>, <<>>)
          ELSE GateResult(FALSE,
                 <<lastTaken[1] + (DayMinutes \div frequency)>>,
                 <<CeilDiv(DayMinutes - timeSinceLastDose * frequency,
                           60 * frequency)>>)

canTakeMedicationNow(lastTaken, frequency) ==
  IF lastTaken = <<>>
  THEN GateResult(TRUE, <<>>, <<>>)
  ELSE LET lasTakenIST == convertUTCToIST(lastTaken[1])
           timeSinceLastDose == getCurrentIST - lasTakenIST
       IN IF IntervalReached(timeSinceLastDose, frequency)
          THEN GateResult(TRUE, <<>>, <<>>)
          ELSE GateResult(FALSE,
                 <<lasTakenIST + (DayMinutes \div frequency)>>,
                 <<CeilDiv(DayMinutes - timeSinceLastDose * frequency,
                           60 * frequency)>>)

----------------------------------------------------------------------------
\* medicationTimingUtils: the meal-window validator

Meals == {"breakfast", "lunch", "dinner", "snack"}

RequiredMeals == <<"breakfast", "lunch", "dinner">>

Time(h, m) == [h |-> h, m |-> m]

timeToMinutes(timeStr) == timeStr.h * 60 + timeStr.m

minutesToTime(minutes) == Time(FloorDiv(minutes, 60), JsRem(minutes, 60))

RECURSIVE InsertByTime(_, _)
InsertByTime(x, s) ==
  IF s = <<>> THEN <<x>>
  ELSE IF timeToMinutes(x.time) < timeToMinutes(Head(s).time)
       THEN <<x>> \o s
       ELSE <<Head(s)>> \o InsertByTime(x, Tail(s))

\* Array.prototype.sort by time: stable
RECURSIVE SortByTime(_)
SortByTime(s) ==
  IF s = <<>> THEN <<>>
  ELSE InsertByTime(s[Len(s)], SortByTime(SubSeq(s, 1, Len(s) - 1)))

\* findIndex, 0-based, -1 when nothing matches
FindIndexByTime(s, t) ==
  IF \E i \in 1..Len(s) : s[i].time = t
  THEN (CHOOSE i \in 1..Len(s) :
          s[i].time = t /\ \A j \in 1..(i - 1) : s[j].time # t) - 1
  ELSE -1

\* a[i] || fallback, for a 0-based index
AtOr(s, i, fallback) == IF i >= 0 /\ i < Len(s) THEN s[i + 1] ELSE fallback

\* calculateWindow throws (timeToMinutes of undefined) when a main meal is missing
calculateWindowThrows(timingRelation, mto) ==
  /\ timingRelation = "empty_stomach"
  /\ \E i \in 1..Len(RequiredMeals) : RequiredMeals[i] \notin DOMAIN mto

calculateWindow(timingRelation, mealTime, mto) ==
  LET mealMinutes == timeToMinutes(mealTime) IN
  CASE timingRelation = "after_food" ->
         [start |-> minutesToTime(Max(0, mealMinutes - 60)),
          end   |-> minutesToTime(mealMinutes + 150)]
    [] timingRelation = "before_food" ->
         [start |-> minutesToTime(Max(0, mealMinutes - 120)),
          end   |-> minutesToTime(mealMinutes + 60)]
    [] timingRelation = "with_food" ->
         [start |-> minutesToTime(Max(0, mealMinutes - 60)),
          end   |-> minutesToTime(mealMinutes + 60)]
    [] timingRelation = "empty_stomach" ->
         LET allMeals == SortByTime(
               [i \in 1..Len(RequiredMeals) |->
                  [type |-> RequiredMeals[i], time |-> mto[RequiredMeals[i]]]])
             currentMealIndex == FindIndexByTime(allMeals, mealTime)
             previousMeal == AtOr(allMeals, currentMealIndex - 1,
                                  allMeals[Len(allMeals)])
             nextMeal == AtOr(allMeals, currentMealIndex + 1, allMeals[1])
         IN [start |-> minutesToTime(timeToMinutes(previousMeal.time) + 150),
             end   |-> minutesToTime(timeToMinutes(nextMeal.time) - 120)]
    [] OTHER ->
         [start |-> Time(0, 0), end |-> Time(23, 59)]

getMealsForFrequency(frequency) ==
  CASE frequency = 1 -> <<"lunch">>
    [] frequency = 2 -> <<"breakfast", "dinner">>
    [] frequency = 3 -> <<"breakfast", "lunch", "dinner">>
    [] frequency = 4 -> <<"breakfast", "lunch", "dinner", "snack">>
    [] OTHER -> <<"lunch">>

Window(mealType, mealTime, w, cur) ==
  [mealType |-> mealType, mealTime |-> mealTime,
   windowStart |-> w.start, windowEnd |-> w.end, isCurrentWindow |-> cur]

RECURSIVE WindowsOf(_, _, _)
WindowsOf(assigned, timingRelation, mto) ==
  IF assigned = <<>> THEN <<>>
  ELSE LET mealType == Head(assigned)
           rest == WindowsOf(Tail(assigned), timingRelation, mto)
       IN IF mealType \notin DOMAIN mto
          THEN rest
          ELSE <<Window(mealType, mto[mealType],
                        calculateWindow(timingRelation, mto[mealType], mto),
                        FALSE)>> \o rest

calculateMedicationWindows(frequency, timingRelation, mto) ==
  WindowsOf(getMealsForFrequency(frequency), timingRelation, mto)

isTimeInWindow(currentTime, windowStart, windowEnd) ==
  LET current == timeToMinutes(currentTime)
      start == timeToMinutes(windowStart)
      end == timeToMinutes(windowEnd)
  IN IF start > end
     THEN current >= start \/ current <= end
     ELSE current >= start /\ current <= end

\* A message: its fixed text and what is interpolated into it
Msg(text, meal, ws, we, n) ==
  [text |-> text, meal |-> meal, ws |-> ws, we |-> we, n |-> n]

Text(text) == Msg(text, "", <<>>, <<>>, 0)

Validation(c, reason, cur, nxt, until) ==
  [canTake |-> c, reason |-> reason, currentWindows |-> cur,
   nextWindow |-> nxt, timeUntilNextWindow |-> until]

RECURSIVE FilterCurrent(_, _)
FilterCurrent(windows, nowStr) ==
  IF windows = <<>> THEN <<>>
  ELSE LET w == Head(windows)
           rest == FilterCurrent(Tail(windows), nowStr)
       IN IF isTimeInWindow(nowStr, w.windowStart, w.windowEnd)
          THEN <<[w EXCEPT !.isCurrentWindow = TRUE]>> \o rest
          ELSE rest

\* the wait without the wrap past midnight
WaitTimeNoWrap(window, currentMinutes) ==
  timeToMinutes(window.windowStart) - currentMinutes

\* the forward wait to a window's start
WaitTime(window, currentMinutes) ==
  LET waitTime == timeToMinutes(window.windowStart) - currentMinutes
  IN IF waitTime <= 0 THEN waitTime + DayMinutes ELSE waitTime

\* the first window with the shortest wait (the loop replaces on < only)
NextWindowIndex(windows, currentMinutes) ==
  CHOOSE i \in 1..Len(windows) :
    /\ \A j \in 1..Len(windows) :
         WaitTime(windows[i], currentMinutes) <= WaitTime(windows[j], currentMinutes)
    /\ \A j \in 1..(i - 1) :
         WaitTime(windows[j], currentMinutes) > WaitTime(windows[i], currentMinutes)

validateMedicationTimingThrows(frequency, timingRelation, mto) ==
  /\ timingRelation # "anytime"
  /\ \E i \in 1..Len(getMealsForFrequency(frequency)) :
       getMealsForFrequency(frequency)[i] \in DOMAIN mto
  /\ calculateWindowThrows(timingRelation, mto)

\* the validator without its early return for anytime
validateMedicationTimingNoShortCircuit(frequency, timingRelation, mto, nowStr) ==
  LET windows == calculateMedicationWindows(frequency, timingRelation, mto)
      currentWindows == FilterCurrent(windows, nowStr)
      currentMinutes == timeToMinutes(nowStr)
  IN IF Len(currentWindows) > 0
     THEN Validation(TRUE,
            Msg("Perfect timing! Take with", currentWindows[1].mealType,
                <<>>, <<>>, 0),
            currentWindows, <<>>, <<>>)
     ELSE IF windows = <<>>
     THEN Validation(FALSE,
            Msg("Not the right time. Next window:", "undefined", <<>>, <<>>, 0),
            <<>>, <<>>, <<>>)
     ELSE LET nextWindow == windows[NextWindowIndex(windows, currentMinutes)]
              shortestWait == WaitTime(nextWindow, currentMinutes)
          IN Validation(FALSE,
               Msg("Not the right time. Next window:", nextWindow.mealType,
                   <<nextWindow.windowStart>>, <<nextWindow.windowEnd>>, 0),
               <<>>, <<nextWindow>>,
               <<Time(FloorDiv(shortestWait, 60), JsRem(shortestWait, 60))>>)

validateMedicationTiming(frequency, timingRelation, mto, nowStr) ==
  IF timingRelation = "anytime"
  THEN Validation(TRUE, Text("This medication can be taken at any time"),
                  <<>>, <<>>, <<>>)
  ELSE
    LET windows == calculateMedicationWindows(frequency, timingRelation, mto)
        currentWindows == FilterCurrent(windows, nowStr)
        currentMinutes == timeToMinutes(nowStr)
    IN IF Len(currentWindows) > 0
       THEN Validation(TRUE,
              Msg("Perfect timing! Take with", currentWindows[1].mealType,
                  <<>>, <<>>, 0),
              currentWindows, <<>>, <<>>)
       ELSE IF windows = <<>>
       THEN Validation(FALSE,
              Msg("Not the right time. Next window:", "undefined", <<>>, <<>>, 0),
              <<>>, <<>>, <<>>)
       ELSE LET nextWindow == windows[NextWindowIndex(windows, currentMinutes)]
                shortestWait == WaitTime(nextWindow, currentMinutes)
            IN Validation(FALSE,
                 Msg("Not the right time. Next window:", nextWindow.mealType,
                     <<nextWindow.windowStart>>, <<nextWindow.windowEnd>>, 0),
                 <<>>, <<nextWindow>>,
                 <<Time(FloorDiv(shortestWait, 60), JsRem(shortestWait, 60))>>)

----------------------------------------------------------------------------
\* Inputs the model draws from

MedIds == {"m1"}

\* getTimezoneOffset() of a server running in UTC, in IST, in UTC+8
TzOffsets == {0, -330, -480}

Freqs == {3, 4}

Relations == {"anytime", "after_food"}

Quantities == {1, 5}

ExpiryDates == {480}

TickSteps == {240}

\* The enabled field of a request body is a JSON value, written as its source
\* text: the two booleans and the string 'false'.
EnabledValues == {"true", "false", "'false'"}

\* what !value tests: false is falsy, a non-empty string is truthy
Truthy(value) == value # "false"

\* the Boolean path enabled of the schema, as an update writes it: booleans as
\* they are, the string 'false' cast to false
castBoolean(value) == value = "true"

\* request bodies of updateMealTimes
MealUpdates ==
  { [m \in {"dinner"} |-> [time |-> Time(22, 0), enabled |-> "true"]],
    [m \in {"breakfast"} |-> [time |-> Time(7, 0), enabled |-> "false"]] }

\* takenAt of a recordMedicationViaBarcode body
TakenAts == {<<>>, <<0>>}

----------------------------------------------------------------------------
\* Documents

\* getDefaultMealTimes
getDefaultMealTimes ==
  [m \in Meals |->
     CASE m = "breakfast" -> <<[time |-> Time(8, 0), enabled |-> TRUE]>>
       [] m = "lunch" -> <<[time |-> Time(12, 30), enabled |-> TRUE]>>
       [] m = "dinner" -> <<[time |-> Time(19, 0), enabled |-> TRUE]>>
       [] OTHER -> <<[time |-> Time(15, 30), enabled |-> FALSE]>>]

\* the document addMedication stores
NewMedication(id, frequency, timingRelation, quantity, expiryDate) ==
  [id |-> id, frequency |-> frequency, timingRelation |-> timingRelation,
   totalQuantity |-> quantity, remainingQuantity |-> quantity,
   expiryDate |-> expiryDate, status |-> "active", lastTaken |-> <<>>]

\* Activity.create. createdAt is the instant of the insert; overrideReason is the
\* block reason the message of an overridden dose quotes. Of the metadata the
\* schema declares doseTaken, stockLevel and alertType: stockLevel is kept here,
\* doseTaken (written, never read back) is left out of the model.
Activity(type, medication, priority, overrideReason, stockLevel) ==
  [type |-> type, medication |-> medication, createdAt |-> now,
   priority |-> priority, overrideReason |-> overrideReason,
   stockLevel |-> stockLevel]

DoseIndexes(id) ==
  {i \in 1..Len(activities) :
     activities[i].type = "dose_taken" /\ activities[i].medication = id}

\* Activity.findOne({medication, type: 'dose_taken'}).sort({createdAt: -1})
LastDoseActivity(id) ==
  IF DoseIndexes(id) = {} THEN <<>>
  ELSE <<activities[CHOOSE i \in DoseIndexes(id) :
                      \A j \in DoseIndexes(id) : j <= i]>>

----------------------------------------------------------------------------
\* barcodeController: checkMedicationTimingWindow

\* new Date().toLocaleTimeString('en-GB', {hour, minute}): the server's local clock
ServerLocalTime == minutesToTime((now - tzOffset) % DayMinutes)

MealTimesObj ==
  [m \in {x \in Meals : mealTimes[x] # <<>>} |-> mealTimes[m][1].time]

checkMedicationTimingWindow(medication) ==
  IF \A m \in Meals : mealTimes[m] = <<>>
  THEN Validation(TRUE, Text("Meal times not configured - taking anytime"),
                  <<>>, <<>>, <<>>)
  ELSE IF validateMedicationTimingThrows(medication.frequency,
                                         medication.timingRelation, MealTimesObj)
  THEN Validation(TRUE, Text("Timing check failed - allowing dose"),
                  <<>>, <<>>, <<>>)
  ELSE validateMedicationTiming(medication.frequency, medication.timingRelation,
                                MealTimesObj, ServerLocalTime)

----------------------------------------------------------------------------
\* The dosing verdict of the three endpoints

\* the last dose read from the mutable field of the medication
ActualLastTakenFromField(medication) == medication.lastTaken

\* lastDoseActivity ? convertUTCToIST(lastDoseActivity.createdAt) : null
ActualLastTaken(medication) ==
  IF LastDoseActivity(medication.id) = <<>> THEN <<>>
  ELSE <<convertUTCToIST(LastDoseActivity(medication.id)[1].createdAt)>>

Warning(failed, msg) == IF failed THEN <<msg>> ELSE <<>>

\* the last entry in the place of the first
LastOr(s, fallback) == IF s = <<>> THEN fallback ELSE s[Len(s)]

FirstOr(s, fallback) == IF s = <<>> THEN fallback ELSE s[1]

Verdict(c, reason, warnings, basic, timing) ==
  [canTake |-> c, reason |-> reason, warnings |-> warnings,
   nextDoseTime |-> basic.nextDoseTime, hoursRemaining |-> basic.hoursRemaining,
   timing |-> timing]

\* the expiry test of logMedicationTaken against the shifted clock
LogIsExpiredShiftedClock(medication) == medication.expiryDate <= getCurrentIST

\* new Date(medication.expiryDate) <= new Date(), of logMedicationTaken
LogIsExpired(medication) == medication.expiryDate <= now

\* new Date(medication.expiryDate) <= new Date(), of checkMedicationTiming
CheckIsExpired(medication) == medication.expiryDate <= now

\* new Date(medication.expiryDate) <= getCurrentIST(), of scanBarcode
ScanIsExpired(medication) == medication.expiryDate <= getCurrentIST

\* the decision without the expiry check
LogFinalCanTakeNoExpiry(override, basicOk, timingOk, isExpired, isActive, hasQuantity) ==
  override \/ (basicOk /\ timingOk /\ isActive /\ hasQuantity)

\* the decision without the interval gate
LogFinalCanTakeNoInterval(override, basicOk, timingOk, isExpired, isActive, hasQuantity) ==
  override \/ (timingOk /\ ~isExpired /\ isActive /\ hasQuantity)

\* the final decision of logMedicationTaken
LogFinalCanTake(override, basicOk, timingOk, isExpired, isActive, hasQuantity) ==
  override \/ (basicOk /\ timingOk /\ ~isExpired /\ isActive /\ hasQuantity)

\* logMedicationTaken, up to the decision
LogVerdict(medication, override) ==
  LET basicDoseCheck ==
        canTakeMedicationNow(ActualLastTaken(medication), medication.frequency)
      timingWindowCheck == checkMedicationTimingWindow(medication)
      isExpired == LogIsExpired(medication)
      hasQuantity == medication.remainingQuantity > 0
      isActive == medication.status = "active"
      finalCanTake ==
        LogFinalCanTake(override, basicDoseCheck.canTake, timingWindowCheck.canTake,
                        isExpired, isActive, hasQuantity)
      reasons ==
        Warning(~basicDoseCheck.canTake, Text("Too soon for next dose"))
        \o Warning(~timingWindowCheck.canTake, timingWindowCheck.reason)
        \o Warning(isExpired, Text("Medication expired"))
        \o Warning(~isActive, Text("Medication not active"))
        \o Warning(~hasQuantity, Text("No medication remaining"))
      safetyWarnings ==
        Warning(~basicDoseCheck.canTake,
                Msg("Next dose available in hours", "", <<>>, <<>>,
                    FirstOr(basicDoseCheck.hoursRemaining, 0)))
        \o Warning(~timingWindowCheck.canTake, timingWindowCheck.reason)
        \o Warning(isExpired,
                   Msg("Medication expired on", "", <<>>, <<>>, medication.expiryDate))
        \o Warning(~isActive,
                   Text("This medication is currently paused or inactive"))
        \o Warning(~hasQuantity,
                   Text("No doses remaining - please contact your caregiver"))
      blockReason ==
        IF reasons # <<>> THEN reasons[1]
        ELSE IF finalCanTake THEN Text("Safe to take") ELSE Text("")
  IN Verdict(finalCanTake, blockReason, safetyWarnings,
             basicDoseCheck, timingWindowCheck)

\* checkMedicationTiming
CheckVerdict(medication) ==
  LET basicDoseCheck ==
        canTakeMedicationNow(ActualLastTaken(medication), medication.frequency)
      timingWindowCheck == checkMedicationTimingWindow(medication)
      isExpired == CheckIsExpired(medication)
      hasQuantity == medication.remainingQuantity > 0
      isActive == medication.status = "active"
      finalCanTake ==
        basicDoseCheck.canTake /\ timingWindowCheck.canTake /\ ~isExpired
        /\ isActive /\ hasQuantity
      reasons ==
        Warning(~basicDoseCheck.canTake, Text("Too soon for next dose"))
        \o Warning(~timingWindowCheck.canTake, timingWindowCheck.reason)
        \o Warning(isExpired, Text("Medication expired"))
        \o Warning(~isActive, Text("Medication not active"))
        \o Warning(~hasQuantity, Text("No medication remaining"))
      warnings ==
        Warning(~basicDoseCheck.canTake,
                Msg("Next dose available in hours", "", <<>>, <<>>,
                    FirstOr(basicDoseCheck.hoursRemaining, 0)))
        \o Warning(~timingWindowCheck.canTake, timingWindowCheck.reason)
        \o Warning(isExpired,
                   Msg("Expired on", "", <<>>, <<>>, medication.expiryDate))
        \o Warning(~isActive, Text("Medication is paused or inactive"))
        \o Warning(~hasQuantity, Text("No doses remaining"))
  IN Verdict(finalCanTake, FirstOr(reasons, Text("Safe to take")), warnings,
             basicDoseCheck, timingWindowCheck)

\* scanBarcode: dosingSafety
ScanVerdict(medication) ==
  LET basicDoseCheck ==
        canTakeMedicationNow(ActualLastTaken(medication), medication.frequency)
      timingWindowCheck == checkMedicationTimingWindow(medication)
      isExpired == ScanIsExpired(medication)
      finalCanTake ==
        basicDoseCheck.canTake /\ timingWindowCheck.canTake /\ ~isExpired
        /\ medication.status = "active" /\ medication.remainingQuantity > 0
      blockReason ==
        IF ~basicDoseCheck.canTake THEN Text("Too soon for next dose")
        ELSE IF ~timingWindowCheck.canTake THEN timingWindowCheck.reason
        ELSE IF isExpired THEN Text("Medication expired")
        ELSE IF medication.status # "active" THEN Text("Medication not active")
        ELSE IF medication.remainingQuantity <= 0 THEN Text("No medication remaining")
        ELSE Text("Safe to take")
  IN Verdict(finalCanTake, blockReason, <<>>, basicDoseCheck, timingWindowCheck)

----------------------------------------------------------------------------
\* Responses

\* what the model keeps of a response: its HTTP status
Response(op, med, override, code, v) == [code |-> code]

NoVerdict ==
  [canTake |-> FALSE, reason |-> Text(""), warnings |-> <<>>,
   nextDoseTime |-> <<>>, hoursRemaining |-> <<>>]

NoResponse == Response("none", "", FALSE, 0, NoVerdict)

----------------------------------------------------------------------------
\* The writes of an accepted dose

\* lastTaken, remainingQuantity and status as the handlers set them before save()
DoseTaken(medication, takenTime) ==
  LET remaining == Max(0, medication.remainingQuantity - 1)
  IN [medication EXCEPT
        !.lastTaken = <<takenTime>>,
        !.remainingQuantity = remaining,
        !.status = IF remaining = 0 THEN "completed" ELSE @]

\* the low-stock test of logMedicationTaken
IsLowStock(remainingQuantity) ==
  remainingQuantity <= LowStockThreshold /\ remainingQuantity > 0

LowStockActivities(saved) ==
  IF IsLowStock(saved.remainingQuantity)
  THEN <<Activity("low_stock", saved.id, "high", <<>>,
                  <<saved.remainingQuantity>>)>>
  ELSE <<>>

DoseActivity(medication, override, v, takenTime) ==
  Activity("dose_taken", medication.id,
           IF override THEN "medium" ELSE "low",
           IF override THEN <<v.reason>> ELSE <<>>,
           <<>>)

----------------------------------------------------------------------------
\* Actions: each handler runs to completion

Tick(d) ==
  /\ now + d <= MaxTime
  /\ now' = now + d
  /\ UNCHANGED <<tzOffset, meds, activities, mealTimes, last, reqs, probe>>

\* POST /api/patient/medications/:medicationId/log
LogMedicationTaken(id, override) ==
  LET medication == meds[id]
      v == LogVerdict(medication, override)
      takenTime == getCurrentIST
      saved == DoseTaken(medication, takenTime)
  IN IF ~v.canTake
     THEN /\ last' = Response("log", id, override, 400, v)
          /\ UNCHANGED <<now, tzOffset, meds, activities, mealTimes, reqs, probe>>
     ELSE /\ Len(activities) < MaxEvents
          /\ meds' = [meds EXCEPT ![id] = saved]
          /\ activities' = activities
               \o <<DoseActivity(medication, override, v, takenTime)>>
               \o LowStockActivities(saved)
          /\ last' = Response("log", id, override, 200, v)
          /\ UNCHANGED <<now, tzOffset, mealTimes, reqs, probe>>

\* GET /api/patient/medications/:medicationId/timing
CheckMedicationTiming(id) ==
  /\ last' = Response("check", id, FALSE, 200, CheckVerdict(meds[id]))
  /\ UNCHANGED <<now, tzOffset, meds, activities, mealTimes, reqs, probe>>

\* GET /api/barcode/scan/:barcodeData
ScanBarcode(id) ==
  /\ last' = Response("scan", id, FALSE, 200, ScanVerdict(meds[id]))
  /\ UNCHANGED <<now, tzOffset, meds, activities, mealTimes, reqs, probe>>

\* POST /api/barcode/record/:medicationId
RecordMedicationViaBarcode(id, takenAt) ==
  LET medication == meds[id]
      takenTime == IF takenAt # <<>> THEN convertUTCToIST(takenAt[1])
                   ELSE getCurrentIST
      saved == DoseTaken(medication, takenTime)
  IN /\ Len(activities) < MaxEvents
     /\ meds' = [meds EXCEPT ![id] = saved]
     /\ activities' = Append(activities,
          Activity("dose_taken", id, "low", <<>>, <<>>))
     /\ last' = Response("record", id, FALSE, 200, NoVerdict)
     /\ UNCHANGED <<now, tzOffset, mealTimes, reqs, probe>>

\* GET /api/patient/meal-times
GetMealTimes ==
  /\ mealTimes' = IF \A m \in Meals : mealTimes[m] = <<>>
                  THEN getDefaultMealTimes ELSE mealTimes
  /\ last' = Response("getMealTimes", "", FALSE, 200, NoVerdict)
  /\ UNCHANGED <<now, tzOffset, meds, activities, reqs, probe>>

\* PUT /api/patient/meal-times
UpdateMealTimes(data) ==
  IF \E i \in 1..Len(RequiredMeals) :
       RequiredMeals[i] \in DOMAIN data /\ ~Truthy(data[RequiredMeals[i]].enabled)
  THEN /\ last' = Response("updateMealTimes", "", FALSE, 400, NoVerdict)
       /\ UNCHANGED <<now, tzOffset, meds, activities, mealTimes, reqs, probe>>
  ELSE /\ mealTimes' = [m \in Meals |->
                          IF m \in DOMAIN data
                          THEN <<[time |-> data[m].time,
                                  enabled |-> castBoolean(data[m].enabled)]>>
                          ELSE mealTimes[m]]
       /\ last' = Response("updateMealTimes", "", FALSE, 200, NoVerdict)
       /\ UNCHANGED <<now, tzOffset, meds, activities, reqs, probe>>

----------------------------------------------------------------------------
\* Specification: requests served one at a time

NoProbe == [fn |-> "none"]

ReqIds == {"r1", "r2"}

NoReq == [pc |-> "idle", medication |-> <<>>, saved |-> <<>>]

InitStore ==
  /\ tzOffset \in TzOffsets
  /\ meds \in [MedIds -> {NewMedication("m1", f, rel, q, e) :
                            f \in Freqs, rel \in Relations,
                            q \in Quantities, e \in ExpiryDates}]
  /\ \A id \in MedIds : meds[id].id = id
  /\ activities = <<>>
  /\ mealTimes = [m \in Meals |-> <<>>]
  /\ last = NoResponse

Init ==
  /\ now = 0
  /\ InitStore
  /\ reqs = [r \in ReqIds |-> NoReq]
  /\ probe = NoProbe

Next ==
  \/ \E d \in TickSteps : Tick(d)
  \/ \E id \in MedIds, override \in BOOLEAN : LogMedicationTaken(id, override)
  \/ \E id \in MedIds : CheckMedicationTiming(id)
  \/ \E id \in MedIds : ScanBarcode(id)
  \/ \E id \in MedIds, takenAt \in TakenAts : RecordMedicationViaBarcode(id, takenAt)
  \/ GetMealTimes
  \/ \E data \in MealUpdates : UpdateMealTimes(data)

Spec == Init /\ [][Next]_vars

----------------------------------------------------------------------------
\* Specification: only logMedicationTaken without override records doses

NextLog ==
  \/ \E d \in TickSteps : Tick(d)
  \/ \E id \in MedIds : LogMedicationTaken(id, FALSE)
  \/ GetMealTimes
  \/ \E data \in MealUpdates : UpdateMealTimes(data)

SpecLog == Init /\ [][NextLog]_vars

----------------------------------------------------------------------------
\* Specification: two logMedicationTaken requests without override whose
\* handlers interleave at their awaits, at one instant

Req(pc, medication, saved) == [pc |-> pc, medication |-> medication, saved |-> saved]

\* await Medication.findOne({_id, patient})
ReqFind(r, id) ==
  /\ reqs[r].pc = "idle"
  /\ reqs' = [reqs EXCEPT ![r] = Req("found", <<meds[id]>>, <<>>)]
  /\ UNCHANGED <<now, tzOffset, meds, activities, mealTimes, last, probe>>

\* await Activity.findOne(...), await checkMedicationTimingWindow(...), the decision
ReqCheck(r) ==
  /\ reqs[r].pc = "found"
  /\ LET medication == reqs[r].medication[1]
         v == LogVerdict(medication, FALSE)
     IN IF ~v.canTake
        THEN /\ reqs' = [reqs EXCEPT ![r] = Req("rejected", <<medication>>, <<>>)]
             /\ last' = Response("log", medication.id, FALSE, 400, v)
        ELSE /\ reqs' = [reqs EXCEPT ![r] =
                  Req("save", <<medication>>, <<DoseTaken(medication, getCurrentIST)>>)]
             /\ UNCHANGED last
  /\ UNCHANGED <<now, tzOffset, meds, activities, mealTimes, probe>>

\* await medication.save(): writes the paths the handler modified
ReqSave(r) ==
  /\ reqs[r].pc = "save"
  /\ LET old == reqs[r].medication[1]
         saved == reqs[r].saved[1]
     IN meds' = [meds EXCEPT ![old.id] =
                   [@ EXCEPT !.lastTaken = saved.lastTaken,
                             !.remainingQuantity =
                                IF saved.remainingQuantity # old.remainingQuantity
                                THEN saved.remainingQuantity ELSE @,
                             !.status =
                                IF saved.status # old.status THEN saved.status ELSE @]]
  /\ reqs' = [reqs EXCEPT ![r].pc = "log"]
  /\ UNCHANGED <<now, tzOffset, activities, mealTimes, last, probe>>

\* await Activity.create({type: 'dose_taken', ...})
ReqLog(r) ==
  /\ reqs[r].pc = "log"
  /\ activities' = Append(activities,
       Activity("dose_taken", reqs[r].saved[1].id, "low", <<>>, <<>>))
  /\ reqs' = [reqs EXCEPT ![r].pc = "low"]
  /\ UNCHANGED <<now, tzOffset, meds, mealTimes, last, probe>>

\* await Activity.create({type: 'low_stock', ...}) when running low, then the response
ReqRespond(r) ==
  /\ reqs[r].pc = "low"
  /\ activities' = activities \o LowStockActivities(reqs[r].saved[1])
  /\ reqs' = [reqs EXCEPT ![r].pc = "accepted"]
  /\ last' = Response("log", reqs[r].saved[1].id, FALSE, 200, NoVerdict)
  /\ UNCHANGED <<now, tzOffset, meds, mealTimes, probe>>

NextConc ==
  \/ \E r \in ReqIds, id \in MedIds : ReqFind(r, id)
  \/ \E r \in ReqIds : ReqCheck(r)
  \/ \E r \in ReqIds : ReqSave(r)
  \/ \E r \in ReqIds : ReqLog(r)
  \/ \E r \in ReqIds : ReqRespond(r)

SpecConc == Init /\ [][NextConc]_vars

----------------------------------------------------------------------------
\* Specification: canTakeMedicationNow on its own, polled as time advances

GateLastTakens == {<<>>, <<0>>, <<45>>}

GateFreqs == 1..6

GateSteps == {30, 60}

InitProbeStore ==
  /\ tzOffset \in TzOffsets
  /\ meds = <<>>
  /\ activities = <<>>
  /\ mealTimes = [m \in Meals |-> <<>>]
  /\ last = NoResponse
  /\ reqs = [r \in ReqIds |-> NoReq]

InitGate ==
  /\ now = 0
  /\ InitProbeStore
  /\ probe \in [fn : {"gate"}, lastTaken : GateLastTakens, frequency : GateFreqs,
                prev : {<<>>}, res : {<<>>}]

GateEval ==
  /\ IF probe.res = <<>> THEN TRUE ELSE probe.res[1].at < now
  /\ probe' = [probe EXCEPT
       !.prev = probe.res,
       !.res = <<[at |-> now,
                  r |-> canTakeMedicationNow(probe.lastTaken, probe.frequency)]>>]
  /\ UNCHANGED <<now, tzOffset, meds, activities, mealTimes, last, reqs>>

GateTick(d) ==
  /\ probe.res # <<>> /\ probe.res[1].at = now
  /\ now + d <= MaxProbeTime
  /\ now' = now + d
  /\ UNCHANGED <<tzOffset, meds, activities, mealTimes, last, reqs, probe>>

NextGate ==
  \/ GateEval
  \/ \E d \in GateSteps : GateTick(d)

SpecGate == InitGate /\ [][NextGate]_vars

----------------------------------------------------------------------------
\* Specification: validateMedicationTiming on its own, at every minute of a day

FoodRelations == {"after_food", "before_food", "with_food"}

TimingFreqs == 1..5

MealTimesOf(b, l, d, s) ==
  [m \in Meals |-> CASE m = "breakfast" -> b [] m = "lunch" -> l
                     [] m = "dinner" -> d [] OTHER -> s]

TimingConfigs ==
  { MealTimesOf(Time(8, 0), Time(12, 30), Time(19, 0), Time(15, 30)),
    MealTimesOf(Time(0, 30), Time(13, 0), Time(22, 0), Time(16, 0)),
    [m \in {"breakfast", "lunch", "dinner"} |->
       MealTimesOf(Time(7, 0), Time(12, 0), Time(21, 30), Time(0, 0))[m]] }

TimingSteps == {1, 60}

InitTiming ==
  /\ now = 0
  /\ InitProbeStore
  /\ probe \in [fn : {"timing"}, frequency : TimingFreqs,
                timingRelation : FoodRelations, mto : TimingConfigs, res : {<<>>}]

TimingEval ==
  /\ probe.res = <<>>
  /\ probe' = [probe EXCEPT !.res =
       <<validateMedicationTiming(probe.frequency, probe.timingRelation,
                                  probe.mto, minutesToTime(now))>>]
  /\ UNCHANGED <<now, tzOffset, meds, activities, mealTimes, last, reqs>>

TimingTick(d) ==
  /\ now + d < DayMinutes
  /\ now' = now + d
  /\ probe' = [probe EXCEPT !.res = <<>>]
  /\ UNCHANGED <<tzOffset, meds, activities, mealTimes, last, reqs>>

NextTiming ==
  \/ TimingEval
  \/ \E d \in TimingSteps : TimingTick(d)

SpecTiming == InitTiming /\ [][NextTiming]_vars

----------------------------------------------------------------------------
\* What the claims speak of

----------------------------------------------------------------------------
\* Specification: checkMedicationTimingWindow on its own, for every timing
\* relation, while the meal records of the patient come into being

AllRelations ==
  {"before_food", "after_food", "with_food", "empty_stomach", "anytime"}

WindowFreqs == 1..5

WindowSteps == {60}

InitWindow ==
  /\ now = 0
  /\ tzOffset \in TzOffsets
  /\ meds \in [MedIds -> {NewMedication("m1", f, rel, 5, DayMinutes) :
                            f \in WindowFreqs, rel \in AllRelations}]
  /\ activities = <<>>
  /\ mealTimes = [m \in Meals |-> <<>>]
  /\ last = NoResponse
  /\ reqs = [r \in ReqIds |-> NoReq]
  /\ probe = [fn |-> "window", res |-> <<>>]

\* the windows the call computes on its way, when it gets to computing them
WindowsComputed(medication) ==
  IF \/ \A m \in Meals : mealTimes[m] = <<>>
     \/ medication.timingRelation = "anytime"
     \/ validateMedicationTimingThrows(medication.frequency,
                                       medication.timingRelation, MealTimesObj)
  THEN <<>>
  ELSE <<calculateMedicationWindows(medication.frequency,
                                    medication.timingRelation, MealTimesObj)>>

WindowEval ==
  /\ probe.res = <<>>
  /\ probe' = [probe EXCEPT !.res =
       <<[v |-> checkMedicationTimingWindow(meds["m1"]),
          windows |-> WindowsComputed(meds["m1"])]>>]
  /\ UNCHANGED <<now, tzOffset, meds, activities, mealTimes, last, reqs>>

WindowTick(d) ==
  /\ now + d < DayMinutes
  /\ now' = now + d
  /\ probe' = [probe EXCEPT !.res = <<>>]
  /\ UNCHANGED <<tzOffset, meds, activities, mealTimes, last, reqs>>

NextWindow ==
  \/ WindowEval
  \/ \E d \in WindowSteps : WindowTick(d)
  \/ probe.res = <<>> /\ GetMealTimes
  \/ probe.res = <<>> /\ \E data \in MealUpdates : UpdateMealTimes(data)

SpecWindow == InitWindow /\ [][NextWindow]_vars

----------------------------------------------------------------------------
\* barcodeUtils: generateShortBarcodeData. Strings are sequences of characters.

LowerLetters ==
  <<"a", "b", "c", "d", "e", "f", "g", "h", "i", "j", "k", "l", "m",
    "n", "o", "p", "q", "r", "s", "t", "u", "v", "w", "x", "y", "z">>

UpperLetters ==
  <<"A", "B", "C", "D", "E", "F", "G", "H", "I", "J", "K", "L", "M",
    "N", "O", "P", "Q", "R", "S", "T", "U", "V", "W", "X", "Y", "Z">>

DigitChars == <<"0", "1", "2", "3", "4", "5", "6", "7", "8", "9">>

UpperOf(c) ==
  IF \E i \in 1..Len(LowerLetters) : LowerLetters[i] = c
  THEN UpperLetters[CHOOSE i \in 1..Len(LowerLetters) : LowerLetters[i] = c]
  ELSE c

\* String.prototype.toUpperCase
toUpperCase(s) == [i \in 1..Len(s) |-> UpperOf(s[i])]

\* s.slice(-n)
SliceLast(s, n) == IF Len(s) <= n THEN s ELSE SubSeq(s, Len(s) - n + 1, Len(s))

\* the decimal digits of a natural number, as template literals print it
RECURSIVE NumberToString(_)
NumberToString(n) ==
  IF n < 10 THEN <<DigitChars[n + 1]>>
  ELSE NumberToString(n \div 10) \o <<DigitChars[(n % 10) + 1]>>

\* characters of the identifier the base code is made of
HashLength == 8

\* the suffix past which the loop gives up and falls back
MaxSuffix == 999

\* `MT${idHash}`
BaseBarcode(medicationId) ==
  <<"M", "T">> \o toUpperCase(SliceLast(medicationId, HashLength))

\* `${baseBarcode}-${suffix}`
WithSuffix(baseBarcode, suffix) ==
  IF suffix = 0 THEN baseBarcode
  ELSE baseBarcode \o <<"-">> \o NumberToString(suffix)

\* the lookup without _id: {$ne: medicationId}
BarcodeTakenByAny(store, barcodeData, medicationId) ==
  \E k \in DOMAIN store : store[k].barcodeData = barcodeData

\* Medication.findOne({barcodeData, _id: {$ne: medicationId}})
BarcodeTakenByOther(store, barcodeData, medicationId) ==
  \E k \in DOMAIN store :
    store[k].barcodeData = barcodeData /\ store[k].id # medicationId

\* the loop of generateShortBarcodeData from a given suffix on: the first
\* candidate no other record holds, the fallback once suffix has passed
\* MaxSuffix; fallback is the timestamp-and-random code it would fall back to
ResolveCollisions(store, medicationId, baseBarcode, suffix, fallback) ==
  IF \A n \in suffix..MaxSuffix :
       BarcodeTakenByOther(store, WithSuffix(baseBarcode, n), medicationId)
  THEN fallback
  ELSE WithSuffix(baseBarcode,
         CHOOSE n \in suffix..MaxSuffix :
           /\ ~BarcodeTakenByOther(store, WithSuffix(baseBarcode, n), medicationId)
           /\ \A m \in suffix..(n - 1) :
                BarcodeTakenByOther(store, WithSuffix(baseBarcode, m), medicationId))

generateShortBarcodeData(store, medicationId, fallback) ==
  ResolveCollisions(store, medicationId, BaseBarcode(medicationId), 0, fallback)

\* Medication.findOne({barcodeData}) of scanBarcode: the keys of the records found
FindByBarcode(store, barcodeData) ==
  {k \in DOMAIN store : store[k].barcodeData = barcodeData}

----------------------------------------------------------------------------
\* Specification: two addMedication requests whose handlers interleave at their
\* awaits, and generateShortBarcodeData called on its own

MaxCalls == 2

\* attempts of the pre-save hook at a fresh random code
MaxAttempts == 5

\* two identifiers with the same last eight characters, and a short one
IdA == <<"0", "0", "9", "9", "4", "3", "9", "a", "1", "f">>

IdB == <<"1", "1", "9", "9", "4", "3", "9", "a", "1", "f">>

IdShort == <<"1", "2", "3", "4", "5">>

BarcodeIds == {IdA, IdB, IdShort}

\* the _id the constructor gives the document of each request
NewIdOf(r) == IF r = "r1" THEN IdA ELSE IdB

\* codes the pre-save hook can build for one patient and medicine: what differs
\* between two of them is the timestamp and the random part
PreSaveCodes ==
  { <<"M", "T", "_", "P", "_", "M", "_", "7", "_", "X">>,
    <<"M", "T", "_", "P", "_", "M", "_", "7", "_", "Y">> }

\* the timestamp fallback of generateShortBarcodeData
FallbackCode == <<"M", "T", "1", "2", "3", "4", "5", "6", "Q", "Z">>

\* what a String path makes of the un-awaited Promise assigned to it when it
\* does not refuse it
PromiseAsString == <<"[", "o", "b", "j", "e", "c", "t", " ", "P", "r", "o", "m", "i", "s", "e", "]">>

\* the unique index on barcodeData: a write of this value to this document passes
UniqueIndexAllowsAlways(store, key, barcodeData) == TRUE

UniqueIndexAllows(store, key, barcodeData) ==
  \A k \in DOMAIN store : k # key => store[k].barcodeData # barcodeData

AddReq(pc, candidate, attempts) ==
  [pc |-> pc, candidate |-> candidate, attempts |-> attempts]

InitBarcode ==
  /\ now = 0
  /\ tzOffset \in {0}
  /\ meds = <<>>
  /\ activities = <<>>
  /\ mealTimes = [m \in Meals |-> <<>>]
  /\ last = NoResponse
  /\ reqs = [r \in ReqIds |-> AddReq("idle", <<>>, 0)]
  /\ probe = [fn |-> "barcode", calls |-> <<>>]

\* new Medication({...}); save() enters the pre-save hook, which builds a code
AddPreSaveGenerate(r) ==
  /\ reqs[r].pc = "idle"
  /\ \E code \in PreSaveCodes :
       reqs' = [reqs EXCEPT ![r] = AddReq("presave", code, 0)]
  /\ UNCHANGED <<now, tzOffset, meds, activities, mealTimes, last, probe>>

\* one turn of the hook's loop: await findOne({barcodeData}), a new random part
\* when it is taken, giving up after MaxAttempts
AddPreSaveCheck(r) ==
  /\ reqs[r].pc = "presave"
  /\ IF \A k \in DOMAIN meds : meds[k].barcodeData # reqs[r].candidate
     THEN /\ reqs' = [reqs EXCEPT ![r].pc = "insert"]
          /\ UNCHANGED last
     ELSE IF reqs[r].attempts + 1 >= MaxAttempts
     THEN /\ reqs' = [reqs EXCEPT ![r] =
               AddReq("failed_presave", reqs[r].candidate, reqs[r].attempts + 1)]
          /\ last' = Response("addMedication", r, FALSE, 500, NoVerdict)
     ELSE /\ \E code \in PreSaveCodes :
               reqs' = [reqs EXCEPT ![r] =
                 AddReq("presave", code, reqs[r].attempts + 1)]
          /\ UNCHANGED last
  /\ UNCHANGED <<now, tzOffset, meds, activities, mealTimes, probe>>

\* the insert of the first save(), under the unique index
AddInsert(r) ==
  /\ reqs[r].pc = "insert"
  /\ IF UniqueIndexAllows(meds, r, reqs[r].candidate)
     THEN /\ meds' = [k \in DOMAIN meds \cup {r} |->
                        IF k = r
                        THEN [id |-> NewIdOf(r), barcodeData |-> reqs[r].candidate]
                        ELSE meds[k]]
          /\ reqs' = [reqs EXCEPT ![r].pc = "assign"]
          /\ UNCHANGED last
     ELSE /\ reqs' = [reqs EXCEPT ![r].pc = "failed_insert"]
          /\ last' = Response("addMedication", r, FALSE, 500, NoVerdict)
          /\ UNCHANGED meds
  /\ UNCHANGED <<now, tzOffset, activities, mealTimes, probe>>

\* medication.barcodeData = generateShortBarcodeData(...) without await, then the
\* second save(): the String path either refuses the Promise, and save() rejects,
\* or holds its string form, written under the unique index; then the
\* medication_added event and the 201
AddSecondSave(r) ==
  /\ reqs[r].pc = "assign"
  /\ \E refused \in BOOLEAN :
       IF refused \/ ~UniqueIndexAllows(meds, r, PromiseAsString)
       THEN /\ reqs' = [reqs EXCEPT ![r].pc = "failed_save"]
            /\ last' = Response("addMedication", r, FALSE, 500, NoVerdict)
            /\ UNCHANGED <<meds, activities>>
       ELSE /\ meds' = [meds EXCEPT ![r].barcodeData = PromiseAsString]
            /\ activities' = Append(activities,
                 Activity("medication_added", r, "low", <<>>, <<>>))
            /\ reqs' = [reqs EXCEPT ![r].pc = "done"]
            /\ last' = Response("addMedication", r, FALSE, 201, NoVerdict)
  /\ UNCHANGED <<now, tzOffset, mealTimes, probe>>

\* await generateShortBarcodeData(medicationId), as the collision test calls it
BarcodeCall(medicationId) ==
  /\ Len(probe.calls) < MaxCalls
  /\ probe' = [probe EXCEPT !.calls = Append(@,
       [id |-> medicationId,
        code |-> generateShortBarcodeData(meds, medicationId, FallbackCode)])]
  /\ UNCHANGED <<now, tzOffset, meds, activities, mealTimes, last, reqs>>

NextBarcode ==
  \/ \E r \in ReqIds : AddPreSaveGenerate(r)
  \/ \E r \in ReqIds : AddPreSaveCheck(r)
  \/ \E r \in ReqIds : AddInsert(r)
  \/ \E r \in ReqIds : AddSecondSave(r)
  \/ \E medicationId \in BarcodeIds : BarcodeCall(medicationId)

SpecBarcode == InitBarcode /\ [][NextBarcode]_vars

----------------------------------------------------------------------------
\* Specification: the meal-time endpoints on their own, for request bodies of
\* one or two meals

MealBodyTimes == {Time(7, 0)}

MealBodies ==
  UNION { [ms -> [time : MealBodyTimes, enabled : EnabledValues]] :
            ms \in {x \in SUBSET Meals : Cardinality(x) \in {1, 2}} }

InitMeals ==
  /\ now = 0
  /\ InitProbeStore
  /\ probe = NoProbe

NextMeals ==
  \/ GetMealTimes
  \/ \E data \in MealBodies : UpdateMealTimes(data)

SpecMeals == InitMeals /\ [][NextMeals]_vars

----------------------------------------------------------------------------
\* Specification: calculateWindow for empty_stomach on its own, for every
\* configuration of the three main meals over a few times of day

EmptyStomachTimes == {Time(8, 0), Time(12, 30), Time(19, 0), Time(23, 0)}

InitEmptyStomach ==
  /\ now = 0
  /\ InitProbeStore
  /\ probe \in [fn : {"empty_stomach"},
                mto : [{"breakfast", "lunch", "dinner"} -> EmptyStomachTimes],
                mealType : {"breakfast", "lunch", "dinner"},
                res : {<<>>}]

EmptyStomachEval ==
  /\ probe.res = <<>>
  /\ probe' = [probe EXCEPT !.res =
       <<calculateWindow("empty_stomach", probe.mto[probe.mealType], probe.mto)>>]
  /\ UNCHANGED <<now, tzOffset, meds, activities, mealTimes, last, reqs>>

NextEmptyStomach == EmptyStomachEval

SpecEmptyStomach == InitEmptyStomach /\ [][NextEmptyStomach]_vars

----------------------------------------------------------------------------
\* Specification: generateShortBarcodeData on its own, over collections in which
\* other records already hold the base code and a run of its suffixed forms

\* s.substring(a, b)
Substring(s, a, b) ==
  IF a >= Len(s) THEN <<>> ELSE SubSeq(s, a + 1, IF b <= Len(s) THEN b ELSE Len(s))

\* Date.now().toString()
TimestampStrings ==
  { <<"1", "7", "6", "2", "0", "0", "0", "1", "2", "3", "4", "5", "6">> }

\* Math.random().toString(36): a long fraction, 0.5 and 0
RandomStrings ==
  { <<"0", ".", "q", "z", "4", "k", "8">>, <<"0", ".", "i">>, <<"0">> }

\* `MT${timestamp}${Math.random().toString(36).substring(2, 4).toUpperCase()}`
TimestampFallback(timestamp, random) ==
  <<"M", "T">> \o SliceLast(timestamp, 6) \o toUpperCase(Substring(random, 2, 4))

\* the _id of the k-th other record
OtherId(k) == <<"f">> \o NumberToString(k)

\* other records hold the base code of IdA and its suffixes below taken, the
\* suffixes in hole left free; own, when given, is the suffix of the code the
\* record of IdA holds
ShortCodeStore(taken, hole, own) ==
  [k \in ((0..(taken - 1)) \ hole) \cup (IF own = <<>> THEN {} ELSE {-1}) |->
     IF k = -1
     THEN [id |-> IdA, barcodeData |-> WithSuffix(BaseBarcode(IdA), own[1])]
     ELSE [id |-> OtherId(k), barcodeData |-> WithSuffix(BaseBarcode(IdA), k)]]

\* how many codes the other records hold: none, a few, all but the last suffix, all
TakenCounts == {0, 1, 2, 3, MaxSuffix, MaxSuffix + 1}

\* the collections the unique index on barcodeData admits
ShortCodeStores ==
  { ShortCodeStore(taken, hole, own) :
      <<taken, hole, own>> \in
        { x \in TakenCounts \X {{}, {1}, {2}, {1, 2}} \X {<<>>, <<0>>, <<1>>, <<2>>, <<3>>} :
            x[3] = <<>> \/ x[3][1] >= x[1] \/ x[3][1] \in x[2] } }

InitShortCode ==
  /\ now = 0
  /\ tzOffset \in {0}
  /\ meds \in ShortCodeStores
  /\ activities = <<>>
  /\ mealTimes = [m \in Meals |-> <<>>]
  /\ last = NoResponse
  /\ reqs = [r \in ReqIds |-> NoReq]
  /\ probe = [fn |-> "shortcode", calls |-> <<>>]

\* await generateShortBarcodeData(medicationId)
ShortCodeCall(medicationId, timestamp, random) ==
  /\ probe.calls = <<>>
  /\ probe' = [probe EXCEPT !.calls = Append(@,
       [id |-> medicationId,
        code |-> generateShortBarcodeData(meds, medicationId,
                   TimestampFallback(timestamp, random))])]
  /\ UNCHANGED <<now, tzOffset, meds, activities, mealTimes, last, reqs>>

NextShortCode ==
  \E medicationId \in BarcodeIds, timestamp \in TimestampStrings,
     random \in RandomStrings :
    ShortCodeCall(medicationId, timestamp, random)

SpecShortCode == InitShortCode /\ [][NextShortCode]_vars

----------------------------------------------------------------------------
\* Specification: the one-time codes of one patient user. The user document
\* holds a single otp / otpExpires pair, written by signupUser, resendOTP,
\* forgotPassword and sendPatientOTP alike. probe.issuedBy remembers which of
\* them wrote the pair the document holds now; the document has no such field.

\* generateOTPExpiry(minutes = 5)
OtpExpiryMinutes == 5

MaxOtpTime == 8

\* generateOTP(): six random digits
OtpCodes == {"111111", "222222"}

Passwords == {"Secret01", "Secret02"}

Caregivers == {"c1"}

\* new Date() > expiryDate
isOTPExpired(expiryDate) == now > expiryDate

\* the checks verifyOTP, resetPassword and verifyPatientOTP make of a submitted
\* code, in their order; "ok" when all pass
OtpCheck(user, otp) ==
  IF user.otp = <<>> \/ user.otpExpires = <<>> THEN "No OTP found"
  ELSE IF isOTPExpired(user.otpExpires[1]) THEN "OTP has expired"
  ELSE IF user.otp[1] # otp THEN "Invalid OTP"
  ELSE "ok"

\* user.otp = otp; user.otpExpires = generateOTPExpiry(); save()
WithOtp(user, otp) ==
  [user EXCEPT !.otp = <<otp>>, !.otpExpires = <<now + OtpExpiryMinutes>>]

\* user.otp = undefined; user.otpExpires = undefined
WithoutOtp(user) == [user EXCEPT !.otp = <<>>, !.otpExpires = <<>>]

OtpAnswer(code) ==
  /\ last' = Response("otp", "", FALSE, code, NoVerdict)
  /\ UNCHANGED <<now, tzOffset, meds, activities, mealTimes, reqs>>

\* the state after signupUser: an unverified patient user holding its signup code
InitOtp ==
  /\ now = 0
  /\ InitProbeStore
  /\ \E otp \in OtpCodes :
       probe = [fn |-> "otp",
                user |-> [password |-> "Secret01", isEmailVerified |-> FALSE,
                          otp |-> <<otp>>, otpExpires |-> <<OtpExpiryMinutes>>],
                patients |-> {},
                issuedBy |-> "signupUser"]

\* POST /api/caregiver/patients/send-otp
SendPatientOTP(caregiverId, otp) ==
  IF caregiverId \in probe.patients
  THEN /\ UNCHANGED probe
       /\ OtpAnswer(400)
  ELSE /\ probe' = [probe EXCEPT !.user = WithOtp(@, otp),
                                 !.issuedBy = "sendPatientOTP"]
       /\ OtpAnswer(200)

\* POST /api/caregiver/patients/verify-otp
VerifyPatientOTP(caregiverId, otp) ==
  IF OtpCheck(probe.user, otp) # "ok"
  THEN /\ UNCHANGED probe
       /\ OtpAnswer(400)
  ELSE /\ probe' = [probe EXCEPT !.user = WithoutOtp(@),
                                 !.patients = @ \cup {caregiverId},
                                 !.issuedBy = "none"]
       /\ OtpAnswer(201)

\* POST /api/auth/verify-otp
VerifyOTP(otp, type) ==
  IF OtpCheck(probe.user, otp) # "ok"
  THEN /\ UNCHANGED probe
       /\ OtpAnswer(400)
  ELSE IF type = "forgot_password"
  THEN /\ UNCHANGED probe
       /\ OtpAnswer(200)
  ELSE /\ probe' = [probe EXCEPT
            !.user = [WithoutOtp(@) EXCEPT !.isEmailVerified = TRUE],
            !.issuedBy = "none"]
       /\ OtpAnswer(200)

\* POST /api/auth/resend-otp
ResendOTP(otp) ==
  IF probe.user.isEmailVerified
  THEN /\ UNCHANGED probe
       /\ OtpAnswer(400)
  ELSE /\ probe' = [probe EXCEPT !.user = WithOtp(@, otp),
                                 !.issuedBy = "resendOTP"]
       /\ OtpAnswer(200)

\* POST /api/auth/forgot-password
ForgotPassword(otp) ==
  /\ probe' = [probe EXCEPT !.user = WithOtp(@, otp),
                            !.issuedBy = "forgotPassword"]
  /\ OtpAnswer(200)

\* POST /api/auth/reset-password
ResetPassword(otp, newPassword) ==
  IF OtpCheck(probe.user, otp) # "ok"
  THEN /\ UNCHANGED probe
       /\ OtpAnswer(400)
  ELSE /\ probe' = [probe EXCEPT
            !.user = [WithoutOtp(@) EXCEPT !.password = newPassword],
            !.issuedBy = "none"]
       /\ OtpAnswer(200)

OtpTick ==
  /\ now < MaxOtpTime
  /\ now' = now + 1
  /\ UNCHANGED <<tzOffset, meds, activities, mealTimes, last, reqs, probe>>

NextOtp ==
  \/ \E caregiverId \in Caregivers, otp \in OtpCodes : SendPatientOTP(caregiverId, otp)
  \/ \E caregiverId \in Caregivers, otp \in OtpCodes : VerifyPatientOTP(caregiverId, otp)
  \/ \E otp \in OtpCodes, type \in {"signup", "forgot_password"} : VerifyOTP(otp, type)
  \/ \E otp \in OtpCodes : ResendOTP(otp)
  \/ \E otp \in OtpCodes : ForgotPassword(otp)
  \/ \E otp \in OtpCodes, newPassword \in Passwords : ResetPassword(otp, newPassword)
  \/ OtpTick

SpecOtp == InitOtp /\ [][NextOtp]_vars

\* the five safety checks, each as the handler evaluates it
AllChecksPass(medication) ==
  /\ canTakeMedicationNow(ActualLastTaken(medication), medication.frequency).canTake
  /\ checkMedicationTimingWindow(medication).canTake
  /\ medication.expiryDate > now
  /\ medication.status = "active"
  /\ medication.remainingQuantity > 0

\* this step appends a dose_taken event for the medication
DoseAppended(id) ==
  /\ Len(activities') > Len(activities)
  /\ activities'[Len(activities) + 1].type = "dose_taken"
  /\ activities'[Len(activities) + 1].medication = id

\* the appended dose_taken event is one logged with override (priority medium)
AppendedWithOverride == activities'[Len(activities) + 1].priority = "medium"

C2_QuantityMatchesDoseEvents ==
  \A id \in MedIds :
    /\ meds[id].remainingQuantity >= 0
    /\ meds[id].totalQuantity - meds[id].remainingQuantity
         = Cardinality(DoseIndexes(id))

\* C3: whichever endpoint records it, a dose_taken event is appended only if an
\* override was supplied or all five safety checks passed at that moment.
C3_DoseOnlyIfOverrideOrAllChecks ==
  [][\A id \in MedIds :
       DoseAppended(id) => (AppendedWithOverride \/ AllChecksPass(meds[id]))]_vars

\* C4: the interval gate, as the endpoints invoke it, permits exactly when there is
\* no previous dose_taken event or 24/frequency hours of real time have passed
\* since the most recent one.
C4_GatePermitsIffIntervalElapsed ==
  \A id \in MedIds :
    canTakeMedicationNow(ActualLastTaken(meds[id]), meds[id].frequency).canTake
      <=> \/ LastDoseActivity(id) = <<>>
          \/ IntervalReached(now - LastDoseActivity(id)[1].createdAt,
                             meds[id].frequency)

\* C5: of two concurrent logMedicationTaken requests without override at one
\* instant at most one is accepted, at most one dose_taken event is appended, and
\* once both have answered remainingQuantity has dropped by the number accepted.
C5_ConcurrentLogsSerialized ==
  \A id \in MedIds :
    LET accepted == {r \in ReqIds : reqs[r].pc = "accepted"}
    IN /\ Cardinality(accepted) <= 1
       /\ Cardinality(DoseIndexes(id)) <= 1
       /\ (\A r \in ReqIds : reqs[r].pc \in {"accepted", "rejected"})
            => meds[id].totalQuantity - meds[id].remainingQuantity
                 = Cardinality(accepted)

\* C6: after any sequence of logMedicationTaken requests without override, any two
\* dose_taken events of a medication are at least 24/frequency hours apart.
C6_ConsecutiveDosesSpaced ==
  \A id \in MedIds :
    \A i \in DoseIndexes(id), j \in DoseIndexes(id) :
      i < j => IntervalReached(activities[j].createdAt - activities[i].createdAt,
                               meds[id].frequency)

\* values the mutable medication.lastTaken field could hold
LastTakenValues == {<<>>, <<0>>, <<getCurrentIST>>}

VerdictCore(v) ==
  [canTake |-> v.canTake, reason |-> v.reason, nextDoseTime |-> v.nextDoseTime]

\* C7: the verdict of logMedicationTaken, checkMedicationTiming and scanBarcode is
\* the same in two states that differ only in medication.lastTaken: canTake,
\* reason and nextDoseTime do not depend on that field.
C7_VerdictIgnoresLastTakenField ==
  \A id \in MedIds :
    \A lt \in LastTakenValues :
      LET other == [meds[id] EXCEPT !.lastTaken = lt]
      IN /\ VerdictCore(LogVerdict(other, FALSE))
              = VerdictCore(LogVerdict(meds[id], FALSE))
         /\ VerdictCore(CheckVerdict(other)) = VerdictCore(CheckVerdict(meds[id]))
         /\ VerdictCore(ScanVerdict(other)) = VerdictCore(ScanVerdict(meds[id]))

\* the field and the event log disagree while the gate blocks on the event log
C7_Witness ==
  \E id \in MedIds :
    /\ LastDoseActivity(id) # <<>>
    /\ meds[id].lastTaken # ActualLastTaken(meds[id])
    /\ ~CheckVerdict(meds[id]).canTake
    /\ CheckVerdict(meds[id]).nextDoseTime # <<>>

\* C8: whenever canTakeMedicationNow denies, hoursRemaining is an integer >= 1.
C8_HoursRemainingAtLeastOne ==
  probe.res # <<>> =>
    LET r == probe.res[1].r
    IN ~r.canTake => /\ Len(r.hoursRemaining) = 1
                     /\ r.hoursRemaining[1] \in Nat
                     /\ r.hoursRemaining[1] >= 1

\* denied with less than an hour to go: the report is 1, not 0
C8_Witness ==
  /\ probe.res # <<>>
  /\ probe.lastTaken # <<>>
  /\ ~probe.res[1].r.canTake
  /\ probe.res[1].r.hoursRemaining = <<1>>
  /\ (DayMinutes - (now - probe.lastTaken[1]) * probe.frequency)
       < 60 * probe.frequency

\* C9 as stated: for a fixed last dose and frequency the gate is false right after
\* the dose, true only once 24/frequency hours have elapsed, never false again,
\* and while blocked hoursRemaining strictly decreases as time advances.
C9_GateMonotoneStrict ==
  (probe.res # <<>> /\ probe.lastTaken # <<>>) =>
    LET cur == probe.res[1]
        elapsed == cur.at - probe.lastTaken[1]
    IN /\ elapsed = 0 => ~cur.r.canTake
       /\ cur.r.canTake => IntervalReached(elapsed, probe.frequency)
       /\ probe.prev # <<>> =>
            LET pre == probe.prev[1]
            IN /\ pre.r.canTake => cur.r.canTake
               /\ (~pre.r.canTake /\ ~cur.r.canTake) =>
                    cur.r.hoursRemaining[1] < pre.r.hoursRemaining[1]

\* C9 amended: as above, but while blocked hoursRemaining never increases as time
\* advances and is strictly smaller after an advance of one hour or more.
C9_GateMonotone ==
  (probe.res # <<>> /\ probe.lastTaken # <<>>) =>
    LET cur == probe.res[1]
        elapsed == cur.at - probe.lastTaken[1]
    IN /\ elapsed = 0 => ~cur.r.canTake
       /\ cur.r.canTake => IntervalReached(elapsed, probe.frequency)
       /\ probe.prev # <<>> =>
            LET pre == probe.prev[1]
            IN /\ pre.r.canTake => cur.r.canTake
               /\ (~pre.r.canTake /\ ~cur.r.canTake) =>
                    /\ cur.r.hoursRemaining[1] <= pre.r.hoursRemaining[1]
                    /\ cur.at - pre.at >= 60 =>
                         cur.r.hoursRemaining[1] < pre.r.hoursRemaining[1]

\* the gate was blocked at the previous poll and has just opened
C9_Witness ==
  /\ probe.res # <<>>
  /\ probe.prev # <<>>
  /\ probe.lastTaken # <<>>
  /\ ~probe.prev[1].r.canTake
  /\ probe.res[1].r.canTake

\* the window the claim gives a meal at T minutes, with its wrap past midnight
ClaimedWindowHolds(timingRelation, T, t) ==
  LET start == Max(0, T - (IF timingRelation = "before_food" THEN 120 ELSE 60))
      end == T + (IF timingRelation = "after_food" THEN 150 ELSE 60)
  IN \/ t >= start /\ t <= end
     \/ end >= DayMinutes /\ t <= end - DayMinutes

\* C10: for after_food, before_food and with_food the validator accepts at t
\* exactly when t lies in the window of some assigned meal, a window that ends
\* past 23:59 also covering 00:00 up to its end on the next day.
C10_AcceptsIffInClaimedWindow ==
  probe.res # <<>> =>
    (probe.res[1].canTake <=>
       \E i \in 1..Len(getMealsForFrequency(probe.frequency)) :
         LET meal == getMealsForFrequency(probe.frequency)[i]
         IN /\ meal \in DOMAIN probe.mto
            /\ ClaimedWindowHolds(probe.timingRelation,
                                  timeToMinutes(probe.mto[meal]), now))

\* permits with no windows reported
PermitsWithoutWindows(v) ==
  v.canTake /\ v.currentWindows = <<>> /\ v.nextWindow = <<>>

\* C11: for timingRelation anytime the validator, and checkMedicationTimingWindow
\* around it, returns canTake = TRUE with empty currentWindows and no nextWindow
\* for every frequency, current time and meal-time configuration (present,
\* partial or absent).
C11_AnytimeAlwaysPermits ==
  /\ \A id \in MedIds :
       meds[id].timingRelation = "anytime" =>
         PermitsWithoutWindows(checkMedicationTimingWindow(meds[id]))
  /\ \A frequency \in GateFreqs :
       PermitsWithoutWindows(
         validateMedicationTiming(frequency, "anytime", MealTimesObj,
                                  ServerLocalTime))

\* an anytime medication checked and dosed under a partial meal configuration
C11_Witness ==
  \E id \in MedIds :
    /\ meds[id].timingRelation = "anytime"
    /\ mealTimes["dinner"] # <<>>
    /\ mealTimes["breakfast"] = <<>>
    /\ last.code = 200
    /\ DoseIndexes(id) # {}

\* the fixed table of the claim: the meals a frequency is assigned, in order
ClaimedMealsOf(frequency) ==
  CASE frequency = 1 -> <<"lunch">>
    [] frequency = 2 -> <<"breakfast", "dinner">>
    [] frequency = 3 -> <<"breakfast", "lunch", "dinner">>
    [] frequency = 4 -> <<"breakfast", "lunch", "dinner", "snack">>
    [] OTHER -> <<"lunch">>

\* C12: whenever the timing check computes windows, they are exactly those of the
\* meals the table assigns to the frequency, in table order, whatever the meal
\* times and enabled flags; frequency 3 always yields exactly three windows.
C12_WindowsFollowFrequencyTable ==
  (probe.res # <<>> /\ probe.res[1].windows # <<>>) =>
    LET windows == probe.res[1].windows[1]
        assigned == ClaimedMealsOf(meds["m1"].frequency)
    IN /\ Len(windows) = Len(assigned)
       /\ \A i \in 1..Len(windows) : windows[i].mealType = assigned[i]

\* C13: with no meal-time records checkMedicationTimingWindow permits with empty
\* window lists for every relation, frequency and time; once records exist the
\* call returns the result of the window computation on them.
C13_AbsentPermitsElseComputed ==
  probe.res # <<>> =>
    LET medication == meds["m1"]
        v == probe.res[1].v
    IN IF \A m \in Meals : mealTimes[m] = <<>>
       THEN PermitsWithoutWindows(v)
       ELSE /\ ~validateMedicationTimingThrows(medication.frequency,
                  medication.timingRelation, MealTimesObj)
            /\ v = validateMedicationTiming(medication.frequency,
                     medication.timingRelation, MealTimesObj, ServerLocalTime)

\* which check a warning of logMedicationTaken or checkMedicationTiming reports
WarningKind(w) ==
  CASE w.text = "Next dose available in hours" -> "interval"
    [] w.text \in {"Medication expired on", "Expired on"} -> "expiry"
    [] w.text \in {"This medication is currently paused or inactive",
                   "Medication is paused or inactive"} -> "status"
    [] w.text \in {"No doses remaining - please contact your caregiver",
                   "No doses remaining"} -> "stock"
    [] OTHER -> "window"

\* the failing checks of a medication, in the fixed order, each with its reason
FailingChecks(medication) ==
  LET gate == canTakeMedicationNow(ActualLastTaken(medication), medication.frequency)
      window == checkMedicationTimingWindow(medication)
  IN (IF ~gate.canTake
      THEN <<[kind |-> "interval", reason |-> Text("Too soon for next dose")]>>
      ELSE <<>>)
     \o (IF ~window.canTake
         THEN <<[kind |-> "window", reason |-> window.reason]>> ELSE <<>>)
     \o (IF medication.expiryDate <= now
         THEN <<[kind |-> "expiry", reason |-> Text("Medication expired")]>>
         ELSE <<>>)
     \o (IF medication.status # "active"
         THEN <<[kind |-> "status", reason |-> Text("Medication not active")]>>
         ELSE <<>>)
     \o (IF medication.remainingQuantity <= 0
         THEN <<[kind |-> "stock", reason |-> Text("No medication remaining")]>>
         ELSE <<>>)

\* the stored medication, the same paused, and the same with nothing left
StatusVariants(medication) ==
  { medication,
    [medication EXCEPT !.status = "paused"],
    [medication EXCEPT !.remainingQuantity = 0] }

ReasonAndWarningsMatch(v, failing) ==
  /\ Len(v.warnings) = Len(failing)
  /\ \A i \in 1..Len(failing) : WarningKind(v.warnings[i]) = failing[i].kind
  /\ failing # <<>> => v.reason = failing[1].reason
  /\ ~v.canTake => (v.reason # Text("") /\ v.warnings # <<>>)

\* C14: in logMedicationTaken and checkMedicationTiming the primary reason is the
\* reason of the first failing check in the order interval gate, meal window,
\* expiry, status, stock, and warnings holds exactly one entry per failing check,
\* for every combination of passing and failing checks.
C14_ReasonIsFirstFailingCheck ==
  \A id \in MedIds :
    \A medication \in StatusVariants(meds[id]) :
      LET failing == FailingChecks(medication)
      IN /\ ReasonAndWarningsMatch(CheckVerdict(medication), failing)
         /\ \A override \in BOOLEAN :
              ReasonAndWarningsMatch(LogVerdict(medication, override), failing)

\* a rejection just answered for a medication failing the interval gate and expiry
C14_Witness ==
  \E id \in MedIds :
    /\ last.code = 400
    /\ Len(FailingChecks(meds[id])) >= 2
    /\ FailingChecks(meds[id])[1].kind = "interval"
    /\ \E i \in 2..Len(FailingChecks(meds[id])) :
         FailingChecks(meds[id])[i].kind = "expiry"

\* the failing reasons the stored dose_taken record holds: of the metadata the
\* handler passes, the schema keeps none of wasOverridden, safetyReason and
\* warnings; the message quotes the primary reason of an overridden dose
StoredReasons(event) == event.overrideReason

\* C15: logMedicationTaken with override on a medication failing every check still
\* decrements remainingQuantity, sets status completed when it reaches zero, and
\* appends a dose_taken event whose stored record carries the override flag and
\* all failing reasons as warnings.
C15_OverrideAuditTrail ==
  [][\A id \in MedIds :
       (LogMedicationTaken(id, TRUE) /\ Len(FailingChecks(meds[id])) = 5) =>
         /\ meds'[id].remainingQuantity = meds[id].remainingQuantity - 1
         /\ meds'[id].remainingQuantity = 0 => meds'[id].status = "completed"
         /\ DoseAppended(id)
         /\ AppendedWithOverride
         /\ Len(StoredReasons(activities'[Len(activities) + 1]))
              = Len(FailingChecks(meds[id]))]_vars

\* C16: when logMedicationTaken rejects (no override, some check failing) the
\* medication record and the activity log are left as they were: no dose_taken
\* and no low_stock event is appended.
C16_RejectChangesNothing ==
  [][\A id \in MedIds :
       (LogMedicationTaken(id, FALSE) /\ ~AllChecksPass(meds[id])) =>
         /\ meds'[id] = meds[id]
         /\ activities' = activities
         /\ last'.code = 400]_vars

\* a 400 just answered while an earlier dose blocks the next one by the interval
\* gate alone, the medication still active with doses left
C16_Witness ==
  \E id \in MedIds :
    /\ last.code = 400
    /\ DoseIndexes(id) # {}
    /\ meds[id].status = "active"
    /\ meds[id].expiryDate > now
    /\ ~canTakeMedicationNow(ActualLastTaken(meds[id]), meds[id].frequency).canTake
    /\ checkMedicationTimingWindow(meds[id]).canTake

\* this step appends a low_stock event for the medication right after the dose
LowStockAppended(id) ==
  /\ Len(activities') = Len(activities) + 2
  /\ activities'[Len(activities) + 2].type = "low_stock"
  /\ activities'[Len(activities) + 2].medication = id

\* C17: every accepted dose, through any dose-logging endpoint, that leaves
\* remainingQuantity at 1, 2 or 3 appends a separate low_stock event, and a dose
\* that leaves it at 0 sets status completed and appends no low_stock event.
C17_LowStockBoundary ==
  [][\A id \in MedIds :
       DoseAppended(id) =>
         /\ meds'[id].remainingQuantity \in 1..LowStockThreshold
              => LowStockAppended(id)
         /\ meds'[id].remainingQuantity = 0
              => (meds'[id].status = "completed" /\ ~LowStockAppended(id))]_vars

\* C18: in every reachable state no two medication records hold the same
\* barcodeData, also when two addMedication requests whose generated candidates
\* coincide interleave their generate-then-save steps: the later conflicting
\* save fails and stores nothing.
C18_BarcodeDataUnique ==
  /\ \A a \in DOMAIN meds, b \in DOMAIN meds :
       a # b => meds[a].barcodeData # meds[b].barcodeData
  /\ \A r \in ReqIds : reqs[r].pc = "failed_insert" => r \notin DOMAIN meds

\* both requests passed the hook's check with the same candidate; one inserted
\* it and the insert of the other was refused
C18_Witness ==
  \E r \in ReqIds, s \in ReqIds :
    /\ r # s
    /\ reqs[r].pc = "failed_insert"
    /\ reqs[r].attempts = 0
    /\ reqs[s].attempts = 0
    /\ reqs[s].candidate = reqs[r].candidate
    /\ s \in DOMAIN meds

\* C19: for two different identifiers with the same last eight characters,
\* successive calls of generateShortBarcodeData return two distinct codes, and
\* scanning each code resolves to the medication it was generated for.
C19_CollidingIdsGetDistinctCodes ==
  \A i \in 1..Len(probe.calls), j \in 1..Len(probe.calls) :
    LET first == probe.calls[i]
        second == probe.calls[j]
    IN (/\ i < j
        /\ first.id # second.id
        /\ SliceLast(first.id, HashLength) = SliceLast(second.id, HashLength))
       => /\ first.code # second.code
          /\ \A k \in FindByBarcode(meds, first.code) : meds[k].id = first.id
          /\ \A k \in FindByBarcode(meds, second.code) : meds[k].id = second.id

\* the characters a code may be made of after its MT prefix
CodeChars ==
  {UpperLetters[i] : i \in 1..Len(UpperLetters)}
    \cup {DigitChars[i] : i \in 1..Len(DigitChars)}

\* MT, exactly eight characters of [A-Z0-9], and an optional -n
MatchesShortPattern(code) ==
  /\ Len(code) >= 2 + HashLength
  /\ code[1] = "M" /\ code[2] = "T"
  /\ \A i \in 3..(2 + HashLength) : code[i] \in CodeChars
  /\ Len(code) > 2 + HashLength =>
       /\ code[3 + HashLength] = "-"
       /\ Len(code) > 3 + HashLength
       /\ \A i \in (4 + HashLength)..Len(code) :
            \E d \in 1..Len(DigitChars) : code[i] = DigitChars[d]

\* C20: for every identifier, also one shorter than 8 characters, the code
\* generateShortBarcodeData returns off the fallback path is MT followed by
\* exactly 8 characters of [A-Z0-9] and an optional -n suffix; for the identifier
\* 12345 the base code is MT00012345.
C20_ShortPatternForEveryId ==
  \A i \in 1..Len(probe.calls) :
    /\ probe.calls[i].code # FallbackCode => MatchesShortPattern(probe.calls[i].code)
    /\ probe.calls[i].id = IdShort =>
         BaseBarcode(probe.calls[i].id)
           = <<"M", "T", "0", "0", "0", "1", "2", "3", "4", "5">>

\* C21: the expiry check fails exactly when the current instant is at or past
\* expiryDate, both taken in the same time frame, and scanBarcode,
\* checkMedicationTiming and logMedicationTaken give the same answer for the same
\* medication at the same instant.
C21_ExpirySameInAllEndpoints ==
  \A id \in MedIds :
    /\ LogIsExpired(meds[id]) <=> now >= meds[id].expiryDate
    /\ CheckIsExpired(meds[id]) <=> now >= meds[id].expiryDate
    /\ ScanIsExpired(meds[id]) <=> now >= meds[id].expiryDate

\* the request would leave a mandatory meal disabled
WouldDisable(data) ==
  \E i \in 1..Len(RequiredMeals) :
    /\ RequiredMeals[i] \in DOMAIN data
    /\ ~castBoolean(data[RequiredMeals[i]].enabled)

\* C22: after any sequence of getMealTimes and updateMealTimes calls no breakfast,
\* lunch or dinner record has enabled = false: updateMealTimes answers 400 to any
\* request that would disable one of them and then changes no meal-time record.
C22_RequiredMealsStayEnabled ==
  /\ [](\A i \in 1..Len(RequiredMeals) :
          mealTimes[RequiredMeals[i]] # <<>> =>
            mealTimes[RequiredMeals[i]][1].enabled)
  /\ [][\A data \in MealBodies :
          (UpdateMealTimes(data) /\ WouldDisable(data)) =>
            (last'.code = 400 /\ UNCHANGED mealTimes)]_vars

\* the place of the meal itself in the list of main meals sorted by time
SortedMainMeals(mto) ==
  SortByTime([i \in 1..Len(RequiredMeals) |->
                [type |-> RequiredMeals[i], time |-> mto[RequiredMeals[i]]]])

PlaceOf(mto, mealType) ==
  CHOOSE i \in 1..Len(RequiredMeals) : SortedMainMeals(mto)[i].type = mealType

\* the window between the cyclic neighbours of the meal itself
NeighbourWindow(mto, mealType) ==
  LET sorted == SortedMainMeals(mto)
      i == PlaceOf(mto, mealType)
      prev == sorted[IF i = 1 THEN Len(sorted) ELSE i - 1]
      next == sorted[IF i = Len(sorted) THEN 1 ELSE i + 1]
  IN [start |-> minutesToTime(timeToMinutes(prev.time) + 150),
      end |-> minutesToTime(timeToMinutes(next.time) - 120)]

\* C23: for empty_stomach and every configuration of breakfast, lunch and dinner
\* times, two meals at the same time included, the window computed for a meal is
\* [prev.T + 150, next.T - 120] with prev and next the cyclic neighbours of that
\* meal itself in the list of the three meals sorted by time.
C23_EmptyStomachUsesOwnNeighbours ==
  probe.res # <<>> =>
    probe.res[1] = NeighbourWindow(probe.mto, probe.mealType)

\* the forward wait from t to a window's start, as the claim words it
ForwardWait(window, t) ==
  IF timeToMinutes(window.windowStart) > t
  THEN timeToMinutes(window.windowStart) - t
  ELSE timeToMinutes(window.windowStart) - t + DayMinutes

HeldByOther(code, id) ==
  \E k \in DOMAIN meds : meds[k].barcodeData = code /\ meds[k].id # id

\* 'MT' + the upper-cased last 8 characters of id, with -n appended for n >= 1
ClaimedCode(id, n) ==
  LET base == <<"M", "T">> \o toUpperCase(SliceLast(id, 8))
  IN IF n = 0 THEN base ELSE base \o <<"-">> \o NumberToString(n)

IsTimestampFallback(code) ==
  /\ Len(code) = 10
  /\ code[1] = "M" /\ code[2] = "T"
  /\ \A i \in 3..8 : \E d \in 1..Len(DigitChars) : code[i] = DigitChars[d]
  /\ \A i \in 9..10 : code[i] \in CodeChars

\* C26: generateShortBarcodeData always returns: when the base code and every
\* suffixed candidate up to -999 collide it gives up and returns the fallback
\* 'MT' + the last 6 digits of the timestamp + 2 random base36 characters, and
\* it never returns a suffixed code base-n with n > 999.
C26_FallbackAfterMaxSuffix ==
  \A i \in 1..Len(probe.calls) :
    LET id == probe.calls[i].id
        code == probe.calls[i].code
    IN /\ code # ClaimedCode(id, MaxSuffix + 1)
       /\ (\A n \in 0..MaxSuffix : HeldByOther(ClaimedCode(id, n), id))
            => IsTimestampFallback(code)
       /\ (\E n \in 0..MaxSuffix : ~HeldByOther(ClaimedCode(id, n), id))
            => \E n \in 0..MaxSuffix : code = ClaimedCode(id, n)

\* the wall clock a Date shows through the server's local getters
LocalClockOf(date) == minutesToTime((date - tzOffset) % DayMinutes)

\* C27: the current time the meal-window validator compares with the patient's
\* windows is the UTC+5:30 wall clock of getCurrentIST, the one the interval
\* gate and the dose timestamps use, whatever the server's own timezone.
C27_ValidatorClockIsIST ==
  ServerLocalTime = LocalClockOf(getCurrentIST)

\* the server's wall clock a number of minutes from now
ClockAfter(minutes) ==
  minutesToTime((timeToMinutes(ServerLocalTime) + minutes) % DayMinutes)

\* C28: whenever the meal-window check rejects a dose (relation other than
\* anytime, meal records as getMealTimes and updateMealTimes leave them),
\* nextWindow and timeUntilNextWindow are given, the wait is more than 0 and less
\* than 24 hours, and the check run again after exactly that wait, on the same
\* records, accepts.
C28_RejectionNamesReachableWindow ==
  (/\ probe.res # <<>>
   /\ meds["m1"].timingRelation # "anytime"
   /\ ~probe.res[1].v.canTake) =>
    LET v == probe.res[1].v
        wait == timeToMinutes(v.timeUntilNextWindow[1])
    IN /\ v.nextWindow # <<>>
       /\ v.timeUntilNextWindow # <<>>
       /\ wait > 0
       /\ wait < DayMinutes
       /\ validateMedicationTiming(meds["m1"].frequency,
            meds["m1"].timingRelation, MealTimesObj, ClockAfter(wait)).canTake

\* C29: for the same medication, patient state and instant, checkMedicationTiming
\* reports canTake = TRUE exactly when logMedicationTaken without override
\* accepts the dose, and when they refuse they give the same primary reason.
C29_CheckAgreesWithLog ==
  /\ [](\A id \in MedIds :
          \A medication \in StatusVariants(meds[id]) :
            /\ CheckVerdict(medication).canTake
                 <=> LogVerdict(medication, FALSE).canTake
            /\ ~CheckVerdict(medication).canTake =>
                 CheckVerdict(medication).reason
                   = LogVerdict(medication, FALSE).reason)
  /\ [][\A id \in MedIds :
          LogMedicationTaken(id, FALSE) =>
            IF CheckVerdict(meds[id]).canTake
            THEN last'.code = 200 /\ DoseAppended(id)
            ELSE last'.code = 400 /\ UNCHANGED <<meds, activities>>]_vars

\* an expired medication that passes the interval gate and the meal window, just
\* refused: both endpoints name the expiry
C29_Witness ==
  \E id \in MedIds :
    /\ last.code = 400
    /\ ~CheckVerdict(meds[id]).canTake
    /\ CheckVerdict(meds[id]).reason = Text("Medication expired")
    /\ LogVerdict(meds[id], FALSE).reason = Text("Medication expired")

\* C30: a code issued by sendPatientOTP is consumed by verifyPatientOTP only:
\* while the user document holds a code that sendPatientOTP issued, no step of
\* resetPassword or verifyOTP changes the patient's password or its
\* email-verification state.
C30_PatientOtpOnlyAddsPatient ==
  [][(probe.issuedBy = "sendPatientOTP") =>
       /\ probe'.user.password = probe.user.password
       /\ probe'.user.isEmailVerified = probe.user.isEmailVerified]_vars

====
